---- MODULE Spec2Model ----
(***************************************************************************)
(* Model of the Beeper message-store poller: the two near-duplicate        *)
(* implementations SubjectiveBeeperRealTimeDataSource (asyncio task) and   *)
(* BeeperDatabaseListener (blocking loop), their reader calls, the row     *)
(* decoder, the network classifier and the thread namer.                   *)
(*                                                                         *)
(* Python strings are sequences of one-character strings, so that          *)
(* lower(), strip() and the `in` substring test are computed, not assumed. *)
(* Python values are tagged records [t |-> type, v |-> payload].           *)
(***************************************************************************)
EXTENDS Integers, Sequences, FiniteSets, TLC

(* ------------------------------------------------------------------ *)
(* Bounds of the model                                                *)
(* ------------------------------------------------------------------ *)
\* rows the chat client inserts into the store during a run
MaxRows == 2
\* row timestamps range over StartTime..StartTime + MaxAhead
MaxAhead == 2
\* poll cycles counted after a stop request
MaxCycles == 2

(* ------------------------------------------------------------------ *)
(* Python values                                                      *)
(* ------------------------------------------------------------------ *)
PyNone == [t |-> "none"]
PyStr(s) == [t |-> "str", v |-> s]
PyInt(n) == [t |-> "int", v |-> n]
PyDict(d) == [t |-> "dict", v |-> d]
PyList(l) == [t |-> "list", v |-> l]

\* Python truth value of an object (bool(x), as used by `or`, `if x`, `not x`).
Truthy(x) ==
    CASE x.t = "none" -> FALSE
      [] x.t = "str"  -> Len(x.v) > 0
      [] x.t = "int"  -> x.v # 0
      [] x.t = "dict" -> DOMAIN x.v # {}
      [] x.t = "list" -> Len(x.v) > 0

\* Python `a or b`.
PyOr(a, b) == IF Truthy(a) THEN a ELSE b

\* dict.get(key, default) on a mapping.
DictGet(d, key, default) == IF key \in DOMAIN d.v THEN d.v[key] ELSE default

(* ------------------------------------------------------------------ *)
(* String primitives                                                  *)
(* ------------------------------------------------------------------ *)
UpperCase == <<"A", "B", "C", "D", "E", "F", "G", "H", "I", "J", "K", "L", "M",
               "N", "O", "P", "Q", "R", "S", "T", "U", "V", "W", "X", "Y", "Z">>
LowerCase == <<"a", "b", "c", "d", "e", "f", "g", "h", "i", "j", "k", "l", "m",
               "n", "o", "p", "q", "r", "s", "t", "u", "v", "w", "x", "y", "z">>

LowerChar(c) ==
    IF \E i \in 1..26 : UpperCase[i] = c
    THEN LowerCase[CHOOSE i \in 1..26 : UpperCase[i] = c]
    ELSE c

\* str.lower()
Lower(s) == [i \in 1..Len(s) |-> LowerChar(s[i])]

\* `sub in s`
Contains(sub, s) ==
    \E i \in 0..(Len(s) - Len(sub)) : SubSeq(s, i + 1, i + Len(sub)) = sub

Whitespace == {" ", "\t", "\n", "\r"}

\* s.strip() == ""
StripIsEmpty(s) == \A i \in 1..Len(s) : s[i] \in Whitespace

\* s[:n]
Prefix(s, n) == SubSeq(s, 1, IF Len(s) < n THEN Len(s) ELSE n)

(* String literals of the source *)
s_whatsapp == <<"w", "h", "a", "t", "s", "a", "p", "p">>
s_telegram == <<"t", "e", "l", "e", "g", "r", "a", "m">>
s_linkedin == <<"l", "i", "n", "k", "e", "d", "i", "n">>
s_beeper_com == <<"b", "e", "e", "p", "e", "r", ".", "c", "o", "m">>
s_local_whatsapp == <<"l", "o", "c", "a", "l", "-", "w", "h", "a", "t", "s", "a", "p", "p">>
s_unknown == <<"u", "n", "k", "n", "o", "w", "n">>
s_matrix == <<"m", "a", "t", "r", "i", "x">>
s_telegram_ == <<"t", "e", "l", "e", "g", "r", "a", "m", "_">>
s_WhatsApp_colon == <<"W", "h", "a", "t", "s", "A", "p", "p", ":", " ">>
s_WhatsApp_Chat == <<"W", "h", "a", "t", "s", "A", "p", "p", " ", "C", "h", "a", "t">>
s_Telegram_BC == <<"T", "e", "l", "e", "g", "r", "a", "m", " ", "B", "o", "t", "/", "C", "h", "a", "n", "n", "e", "l">>
s_Telegram_Chat == <<"T", "e", "l", "e", "g", "r", "a", "m", " ", "C", "h", "a", "t">>
s_LinkedIn_Chat == <<"L", "i", "n", "k", "e", "d", "I", "n", " ", "C", "h", "a", "t">>
s_Matrix_Chat == <<"M", "a", "t", "r", "i", "x", "/", "B", "e", "e", "p", "e", "r", " ", "C", "h", "a", "t">>
s_Chat_open == <<"C", "h", "a", "t", " ", "(">>
s_dots_close == <<".", ".", ".", ")">>

(* Values of the store's columns used as inputs *)
sid_local_whatsapp_5 == <<"l", "o", "c", "a", "l", "-", "w", "h", "a", "t", "s", "a", "p", "p", "-", "5">>
sid_WhatsApp == <<"W", "h", "a", "t", "s", "A", "p", "p", "_", "7">>
sid_telegram == <<"t", "e", "l", "e", "g", "r", "a", "m", "_", "9">>
sid_LinkedIn == <<"L", "i", "n", "k", "e", "d", "I", "n", ":", "3">>
sid_beeper == <<"@", "a", ":", "b", "e", "e", "p", "e", "r", ".", "c", "o", "m">>
sid_BEEPER == <<"@", "a", ":", "B", "e", "e", "p", "e", "r", ".", "C", "O", "M">>
sid_plain == <<"@", "b", "o", "b", ":", "x", ".", "o", "r", "g">>
s_discord == <<"d", "i", "s", "c", "o", "r", "d">>
room_tg == <<"t", "e", "l", "e", "g", "r", "a", "m", "_", "n", "e", "w", "s", "_", "4", "2">>
room_abc == <<"a", "b", "c", "1", "2", "3">>
room_long == <<"!", "r", "o", "o", "m", "i", "d", "1", "2", "3", "4", "5">>
s_hi == <<"h", "i">>
s_hello == <<"h", "e", "l", "l", "o">>
s_a_png == <<"a", ".", "p", "n", "g">>
s_blank == <<" ", "\t">>
s_Ann == <<"A", "n", "n">>
s_Bob == <<"B", "o", "b">>
s_cy == <<"c", "y">>

(* ------------------------------------------------------------------ *)
(* JSON documents held by the store's blob columns                    *)
(* ------------------------------------------------------------------ *)
\* SQL NULL in a blob column. A blob column holds NULL or a document text.
NULL == "<NULL>"

\* `if message_json` / `if sender_user_json`: None and "" are falsy.
BlobTruthy(b) == b # NULL /\ b # ""

\* json.loads on the documents of the catalogue; any other text is not JSON
\* and raises JSONDecodeError (ok = FALSE).
JsonLoads(b) ==
    CASE b = "{}" -> [ok |-> TRUE, v |-> PyDict(<<>>)]
      [] b = "null" -> [ok |-> TRUE, v |-> PyNone]
      [] b = "[]" -> [ok |-> TRUE, v |-> PyList(<<>>)]
      [] b = "[1]" -> [ok |-> TRUE, v |-> PyList(<<PyInt(1)>>)]
      [] b = "{\"text\":\"hi\"}" -> [ok |-> TRUE, v |-> PyDict([text |-> PyStr(s_hi)])]
      [] b = "{\"body\":\"hello\"}" -> [ok |-> TRUE, v |-> PyDict([body |-> PyStr(s_hello)])]
      [] b = "{\"filename\":\"a.png\"}" -> [ok |-> TRUE, v |-> PyDict([filename |-> PyStr(s_a_png)])]
      [] b = "{\"text\":\"\"}" -> [ok |-> TRUE, v |-> PyDict([text |-> PyStr(<<>>)])]
      [] b = "{\"text\":\" \\t\"}" -> [ok |-> TRUE, v |-> PyDict([text |-> PyStr(s_blank)])]
      [] b = "{\"text\":5}" -> [ok |-> TRUE, v |-> PyDict([text |-> PyInt(5)])]
      [] b = "{\"text\":null,\"body\":\"hello\"}" ->
            [ok |-> TRUE, v |-> PyDict([text |-> PyNone, body |-> PyStr(s_hello)])]
      [] b = "{\"displayName\":\"Ann\"}" -> [ok |-> TRUE, v |-> PyDict([displayName |-> PyStr(s_Ann)])]
      [] b = "{\"name\":\"Bob\"}" -> [ok |-> TRUE, v |-> PyDict([name |-> PyStr(s_Bob)])]
      [] b = "{\"username\":\"cy\"}" -> [ok |-> TRUE, v |-> PyDict([username |-> PyStr(s_cy)])]
      [] b = "{\"displayName\":5}" -> [ok |-> TRUE, v |-> PyDict([displayName |-> PyInt(5)])]
      [] OTHER -> [ok |-> FALSE, v |-> PyNone]

(* ------------------------------------------------------------------ *)
(* str() of a Python value                                            *)
(* ------------------------------------------------------------------ *)
KeyOrder == <<"text", "body", "filename", "displayName", "name", "username">>

KeyChars(k) ==
    CASE k = "text" -> <<"t", "e", "x", "t">>
      [] k = "body" -> <<"b", "o", "d", "y">>
      [] k = "filename" -> <<"f", "i", "l", "e", "n", "a", "m", "e">>
      [] k = "displayName" -> <<"d", "i", "s", "p", "l", "a", "y", "N", "a", "m", "e">>
      [] k = "name" -> <<"n", "a", "m", "e">>
      [] k = "username" -> <<"u", "s", "e", "r", "n", "a", "m", "e">>

Digits == <<"0", "1", "2", "3", "4", "5", "6", "7", "8", "9">>

\* repr() of a scalar
ReprScalar(x) ==
    CASE x.t = "none" -> <<"N", "o", "n", "e">>
      [] x.t = "str" -> <<"'">> \o x.v \o <<"'">>
      [] x.t = "int" -> <<Digits[x.v + 1]>>

RECURSIVE ReprItems(_, _)
\* the "'key': value" items of a dict, for the keys KeyOrder[i..], joined by ", "
ReprItems(d, i) ==
    IF i > Len(KeyOrder) THEN <<>>
    ELSE LET k == KeyOrder[i]
             rest == ReprItems(d, i + 1)
         IN IF k \in DOMAIN d
            THEN <<"'">> \o KeyChars(k) \o <<"'", ":", " ">> \o ReprScalar(d[k])
                 \o (IF rest = <<>> THEN <<>> ELSE <<",", " ">> \o rest)
            ELSE rest

\* str(x): a str is itself, a dict prints as {'k': v, ...}, a list as [v, ...]
ToStr(x) ==
    CASE x.t = "str" -> x.v
      [] x.t = "dict" -> <<"{">> \o ReprItems(x.v, 1) \o <<"}">>
      [] x.t = "list" -> <<"[">> \o (IF Len(x.v) = 0 THEN <<>> ELSE ReprScalar(x.v[1])) \o <<"]">>
      [] OTHER -> ReprScalar(x)

(* ------------------------------------------------------------------ *)
(* Row decoding (the body of the `for row in rows` loop)              *)
(* ------------------------------------------------------------------ *)
\* A row of the query's result set is a record
\*   [event_id, room_id, sender_id, message, timestamp, type, isDeleted,
\*    text_content, formatted_content, sender_user_json, network_type]
\* room_id, sender_id, text_content, formatted_content and network_type hold
\* PyNone or a PyStr; message and sender_user_json hold NULL or a document
\* text; sender_user_json and network_type are the columns the two LEFT JOINs
\* contribute (PyNone / NULL when no user or account row matches).

\* message_data = json.loads(message_json) if message_json else {}
\* except (json.JSONDecodeError, TypeError): message_data = {}
message_data(row) ==
    IF BlobTruthy(row.message)
    THEN LET r == JsonLoads(row.message) IN IF r.ok THEN r.v ELSE PyDict(<<>>)
    ELSE PyDict(<<>>)

\* text = (text_content or formatted_content or message_data.get('text', '') or
\*         message_data.get('body', '') or message_data.get('filename', '') or
\*         str(message_data) if message_data else '')
\* Python parses this as (A or B or ... or str(md)) if md else '': the
\* conditional binds weaker than `or`. The result is [raised, v]; .get on a
\* value that is not a mapping raises AttributeError.
ExtractText(row) ==
    LET md == message_data(row)
        pre == PyOr(row.text_content, row.formatted_content)
    IN IF ~Truthy(md) THEN [raised |-> FALSE, v |-> PyStr(<<>>)]
       ELSE IF Truthy(pre) THEN [raised |-> FALSE, v |-> pre]
       ELSE IF md.t # "dict" THEN [raised |-> TRUE, v |-> PyNone]
       ELSE [raised |-> FALSE,
             v |-> PyOr(DictGet(md, "text", PyStr(<<>>)),
                   PyOr(DictGet(md, "body", PyStr(<<>>)),
                   PyOr(DictGet(md, "filename", PyStr(<<>>)),
                        PyStr(ToStr(md)))))]

\* the test reduced to `if not text: continue`
SkipTestNoStrip(text) ==
    IF ~Truthy(text) THEN "skip"
    ELSE IF text.t # "str" THEN "raise"
    ELSE "keep"

\* if not text or text.strip() == "": continue
\* "skip" when the row is dropped, "keep" when decoding goes on, "raise" when
\* text has no strip() (a payload value that is not a string).
SkipTest(text) ==
    IF ~Truthy(text) THEN "skip"
    ELSE IF text.t # "str" THEN "raise"
    ELSE IF StripIsEmpty(text.v) THEN "skip"
    ELSE "keep"

\* Sender parsing: the try block catches only JSONDecodeError and TypeError, so
\* .get on a document that is not a mapping raises out of the row loop.
\* Result: [raised, sender_data, sender_name].
ParseSender(row) ==
    IF ~BlobTruthy(row.sender_user_json)
    THEN [raised |-> FALSE, sender_data |-> PyDict(<<>>), sender_name |-> row.sender_id]
    ELSE LET r == JsonLoads(row.sender_user_json) IN
         IF ~r.ok
         THEN [raised |-> FALSE, sender_data |-> PyDict(<<>>), sender_name |-> row.sender_id]
         ELSE IF r.v.t # "dict"
         THEN [raised |-> TRUE, sender_data |-> r.v, sender_name |-> row.sender_id]
         ELSE [raised |-> FALSE, sender_data |-> r.v,
               sender_name |-> PyOr(DictGet(r.v, "displayName", PyNone),
                               PyOr(DictGet(r.v, "name", PyNone),
                               PyOr(DictGet(r.v, "username", PyNone),
                                    row.sender_id)))]

\* the classification with `network = network_type` in place of
\* `network = network_type or "unknown"`
ClassifyNoDefault(sender_id, network_type) ==
    LET default == network_type IN
    IF ~Truthy(sender_id) THEN default
    ELSE IF Contains(s_whatsapp, Lower(sender_id.v)) THEN PyStr(s_whatsapp)
    ELSE IF Contains(s_telegram, Lower(sender_id.v)) THEN PyStr(s_telegram)
    ELSE IF Contains(s_linkedin, Lower(sender_id.v)) THEN PyStr(s_linkedin)
    ELSE IF Contains(s_beeper_com, sender_id.v) THEN PyStr(s_matrix)
    ELSE IF Contains(s_local_whatsapp, sender_id.v) THEN PyStr(s_whatsapp)
    ELSE default

\* Determine network/platform: network = network_type or "unknown", then the
\* substring tests on the sender id. Only the first three lower-case it; the
\* last test can never decide (a sender id with "local-whatsapp" has matched
\* "whatsapp" already).
Classify(sender_id, network_type) ==
    LET default == PyOr(network_type, PyStr(s_unknown)) IN
    IF ~Truthy(sender_id) THEN default
    ELSE IF Contains(s_whatsapp, Lower(sender_id.v)) THEN PyStr(s_whatsapp)
    ELSE IF Contains(s_telegram, Lower(sender_id.v)) THEN PyStr(s_telegram)
    ELSE IF Contains(s_linkedin, Lower(sender_id.v)) THEN PyStr(s_linkedin)
    ELSE IF Contains(s_beeper_com, sender_id.v) THEN PyStr(s_matrix)
    ELSE IF Contains(s_local_whatsapp, sender_id.v) THEN PyStr(s_whatsapp)
    ELSE default

\* _generate_thread_name. `"telegram_" in room_id` and room_id[:8] raise
\* TypeError when room_id is None; the except handler formats room_id[:8]
\* again, so that failure leaves the function. Result: [raised, v].
generate_thread_name(room_id, network, sender_data) ==
    LET ok(s) == [raised |-> FALSE, v |-> PyStr(s)]
        fail == [raised |-> TRUE, v |-> PyNone]
    IN
    IF network = PyStr(s_whatsapp)
    THEN LET contact_name == PyOr(DictGet(sender_data, "displayName", PyNone),
                                  DictGet(sender_data, "name", PyNone))
         IN IF Truthy(sender_data) /\ Truthy(contact_name)
            THEN ok(s_WhatsApp_colon \o ToStr(contact_name))
            ELSE ok(s_WhatsApp_Chat)
    ELSE IF network = PyStr(s_telegram)
    THEN IF room_id.t # "str" THEN fail
         ELSE IF Contains(s_telegram_, room_id.v) THEN ok(s_Telegram_BC)
         ELSE ok(s_Telegram_Chat)
    ELSE IF network = PyStr(s_linkedin) THEN ok(s_LinkedIn_Chat)
    ELSE IF network = PyStr(s_matrix) THEN ok(s_Matrix_Chat)
    ELSE IF room_id.t # "str" THEN fail
    ELSE ok(s_Chat_open \o Prefix(room_id.v, 8) \o s_dots_close)

\* One iteration of the row loop, up to messages.append(message).
\* outcome "skip": continue; "raise": an exception leaves the loop;
\* "message": msg is appended.
NoMessage == [event_id |-> 0]

DecodeRow(row, thread_id) ==
    LET text == ExtractText(row)
        sender == ParseSender(row)
        network == Classify(row.sender_id, row.network_type)
        thread_name == generate_thread_name(row.room_id, network, sender.sender_data)
    IN IF text.raised THEN [outcome |-> "raise", msg |-> NoMessage]
       ELSE IF SkipTest(text.v) = "skip" THEN [outcome |-> "skip", msg |-> NoMessage]
       ELSE IF SkipTest(text.v) = "raise" THEN [outcome |-> "raise", msg |-> NoMessage]
       ELSE IF sender.raised THEN [outcome |-> "raise", msg |-> NoMessage]
       ELSE IF thread_name.raised THEN [outcome |-> "raise", msg |-> NoMessage]
       ELSE [outcome |-> "message",
             msg |-> [room_id |-> row.room_id,
                      thread_id |-> thread_id,
                      thread_name |-> thread_name.v,
                      sender_id |-> row.sender_id,
                      sender_name |-> sender.sender_name,
                      network |-> network,
                      text |-> text.v,
                      timestamp |-> row.timestamp,
                      event_id |-> row.event_id,
                      message_type |-> row.type]]

(* ------------------------------------------------------------------ *)
(* The clock                                                          *)
(* ------------------------------------------------------------------ *)
\* int(time.time() * 1000) as read by __init__, in ms
StartTime == 1

\* the timestamps of rows: StartTime is a message that already exists when
\* the poller is constructed, later values are messages that arrive after
Timestamps == StartTime..(StartTime + MaxAhead)

(* ------------------------------------------------------------------ *)
(* The store and its two queries                                      *)
(* ------------------------------------------------------------------ *)
AllowedTypes == {"TEXT", "MEDIA", "FILE", "LOCATION", "STICKER"}

\* the limit start_monitoring / _start_monitoring pass
PollLimit == 50
\* the default of get_recent_messages(limit)
DefaultLimit == 10

Max(a, b) == IF a > b THEN a ELSE b
Min(a, b) == IF a < b THEN a ELSE b

\* the order in which the store yields rows of equal timestamp: by eventID
\* "ASC" | "DESC"
VARIABLE tieOrder

\* ORDER BY m.timestamp DESC / ASC: the orders of the row set S sorted by
\* timestamp in the direction dir. SQL leaves the order of rows with equal
\* timestamps unspecified; SQLite yields them in the order its scan meets
\* them, the same for every query on an unchanged store (tieOrder).
Orderings(S, dir) ==
    {q \in [1..Cardinality(S) -> S] :
        /\ \A i, j \in 1..Cardinality(S) : i # j => q[i] # q[j]
        /\ \A i, j \in 1..Cardinality(S) :
             i < j => /\ IF dir = "DESC"
                         THEN q[i].timestamp >= q[j].timestamp
                         ELSE q[i].timestamp <= q[j].timestamp
                      /\ q[i].timestamp = q[j].timestamp =>
                            IF tieOrder = "ASC"
                            THEN q[i].event_id < q[j].event_id
                            ELSE q[i].event_id > q[j].event_id}

\* the query without its `m.timestamp > ?` condition
RecentSinceNoFilter(rows, watermark, limit) ==
    LET S == {r \in rows : r.type \in AllowedTypes /\ r.isDeleted = 0}
    IN {SubSeq(q, 1, Min(limit, Len(q))) : q \in Orderings(S, "DESC")}

\* the query with m.timestamp >= ? in place of m.timestamp > ?
RecentSinceInclusive(rows, watermark, limit) ==
    LET S == {r \in rows : /\ r.timestamp >= watermark
                           /\ r.type \in AllowedTypes
                           /\ r.isDeleted = 0}
    IN {SubSeq(q, 1, Min(limit, Len(q))) : q \in Orderings(S, "DESC")}

\* WHERE m.timestamp > ? AND m.type IN (...) AND m.isDeleted = 0
\* ORDER BY m.timestamp DESC LIMIT ?
\* the set of result sequences the query may return
RecentSince(rows, watermark, limit) ==
    LET S == {r \in rows : /\ r.timestamp > watermark
                           /\ r.type \in AllowedTypes
                           /\ r.isDeleted = 0}
    IN {SubSeq(q, 1, Min(limit, Len(q))) : q \in Orderings(S, "DESC")}

\* WHERE m.roomID = ? AND m.type IN (...) AND m.isDeleted = 0
\* (roomID = NULL is never true in SQL: a None thread id matches no row)
\* ORDER BY m.timestamp ASC LIMIT ?
ThreadMessages(rows, thread_id, limit) ==
    LET S == {r \in rows : /\ thread_id.t = "str"
                           /\ r.room_id = thread_id
                           /\ r.type \in AllowedTypes
                           /\ r.isDeleted = 0}
    IN {SubSeq(q, 1, Min(limit, Len(q))) : q \in Orderings(S, "ASC")}

\* no assignment at all: the watermark a call leaves where it found it
UpdateNever(watermark, timestamp) == watermark

\* the assignment without its guard: self.last_timestamp = timestamp
UpdateUnguarded(watermark, timestamp) == timestamp

\* if timestamp > self.last_timestamp: self.last_timestamp = timestamp
UpdateWatermark(watermark, timestamp) ==
    IF timestamp > watermark THEN timestamp ELSE watermark

\* the update placed before the empty-text test, reached by skipped rows too
WatermarkAfterRowBeforeFilter(watermark, timestamp, outcome) ==
    IF outcome \in {"message", "skip"}
    THEN UpdateWatermark(watermark, timestamp)
    ELSE watermark

\* The watermark after one iteration of the row loop of get_recent_messages:
\* the update follows messages.append, so an iteration left by `continue`
\* (outcome "skip") or by an exception does not reach it.
WatermarkAfterRow(watermark, timestamp, outcome) ==
    IF outcome = "message"
    THEN UpdateWatermark(watermark, timestamp)
    ELSE watermark

(* ------------------------------------------------------------------ *)
(* Rows the model inserts                                             *)
(* ------------------------------------------------------------------ *)
Row(room_id, sender_id, message, type, isDeleted, text_content, formatted_content, sender_user_json, network_type) ==
    [event_id |-> 0, timestamp |-> 0,
     room_id |-> room_id, sender_id |-> sender_id, message |-> message,
     type |-> type, isDeleted |-> isDeleted, text_content |-> text_content,
     formatted_content |-> formatted_content,
     sender_user_json |-> sender_user_json, network_type |-> network_type]

\* a message with a body, from a WhatsApp sender
HelloRow == Row(PyStr(room_abc), PyStr(sid_local_whatsapp_5), "{\"body\":\"hello\"}",
                "TEXT", 0, PyNone, PyNone, NULL, PyNone)
\* a row without any content
EmptyRow == Row(PyStr(room_abc), PyStr(sid_plain), NULL,
                "TEXT", 0, PyNone, PyNone, NULL, PyNone)
\* a row whose payload is JSON but not a mapping
ListPayloadRow == Row(PyStr(room_abc), PyStr(sid_plain), "[1]",
                      "MEDIA", 0, PyNone, PyNone, NULL, PyNone)
\* a message whose roomID column is NULL
NullRoomRow == Row(PyNone, PyStr(sid_WhatsApp), "{\"text\":\"hi\"}",
                   "TEXT", 0, PyNone, PyNone, "{\"name\":\"Bob\"}", PyNone)

PollRows == <<HelloRow, EmptyRow, ListPayloadRow, NullRoomRow>>

\* eventID is the store's unique identifier of a row: one per shape and time
EventId(i, ts) == (i - 1) * (MaxAhead + 1) + (ts - StartTime) + 1

(* ------------------------------------------------------------------ *)
(* State                                                              *)
(* ------------------------------------------------------------------ *)
VARIABLES
    impl,            \* which class was instantiated: "ds" | "listener"
    storeFile,       \* the file at the configured path: "missing" | "empty" | "ok"
    store,           \* rows of mx_room_messages, joined with users and accounts
    db_path,         \* self.db_path: "unset" (None) | "set"
    last_timestamp,  \* self.last_timestamp, the watermark
    running,         \* self.running
    pc,              \* position of the poll loop / monitoring task
    call,            \* the reader call in progress: its remaining rows and messages
    pending,         \* messages of the current cycle not yet passed to the sink
    delivered,       \* messages passed to the sink, in order
    ret,             \* what the direct API call that has just returned returned
    polled,          \* history: the loop has begun a poll cycle
    stopRequested,   \* history: a stop request or interrupt was issued before the loop ended
    cyclesSinceStop, \* history: poll cycles begun since the latest stop request
    interrupted,     \* history: KeyboardInterrupt ended the loop
    maxSeen,         \* history: newest timestamp among the rows RecentSince queries returned
    maxAppended,     \* history: newest timestamp among the rows get_recent_messages appended
    startedAt,       \* history: earliest clock reading at which start can have been invoked
    unclosed,        \* a connection a reader call opened was never closed
    cycleStart       \* how many Messages had been delivered when the current poll cycle began

vars == <<impl, storeFile, store, db_path, last_timestamp, running, pc, call,
          pending, delivered, ret, polled, stopRequested, cyclesSinceStop,
          interrupted, maxSeen, maxAppended,
          startedAt,
          tieOrder,
          unclosed,
          cycleStart>>

\* the history variables of stop requests
stopHistory == <<stopRequested, cyclesSinceStop, interrupted>>

\* since is the watermark a get_recent_messages call passed to its query,
\* thread_id the argument of a get_thread_messages call
NoCall == [op |-> "none", caller |-> "none", rows |-> <<>>, messages |-> <<>>,
           since |-> 0, limit |-> 0, thread_id |-> PyNone, prev |-> 0]
NoRet == [op |-> "none", since |-> 0, limit |-> 0, value |-> <<>>]

\* time.time() is never read after __init__. A stored row carries the time
\* its message arrived, so the clock, whenever it is read, is at least the
\* construction time and at least every timestamp in the store.
ClockAtLeast(rows) ==
    LET T == {StartTime} \cup {r.timestamp : r \in rows}
    IN CHOOSE t \in T : \A u \in T : u <= t

\* the positions at which the poll loop is Running
RunningPcs == {"while", "in_call", "print", "sleep"}

\* __init__ of either class: the watermark is the clock at construction
InitCommon ==
    /\ impl \in {"ds", "listener"}
    /\ db_path = IF impl = "ds" THEN "unset" ELSE "set"
    /\ last_timestamp = StartTime
    /\ running = FALSE
    /\ pc = "idle"
    /\ call = NoCall
    /\ pending = <<>>
    /\ delivered = <<>>
    /\ ret = NoRet
    /\ polled = FALSE
    /\ stopRequested = FALSE
    /\ cyclesSinceStop = 0
    /\ interrupted = FALSE
    /\ maxSeen = StartTime
    /\ maxAppended = StartTime
    /\ startedAt = StartTime
    /\ tieOrder = "ASC"
    /\ unclosed = FALSE
    /\ cycleStart = 0

Init ==
    /\ InitCommon
    /\ storeFile \in {"missing", "ok"}
    /\ store = {}

(* ------------------------------------------------------------------ *)
(* The chat client writing the store                                  *)
(* ------------------------------------------------------------------ *)
\* The client inserts a row; rows already stored are never changed. A call
\* in progress has materialised its rows (fetchall) and does not see an
\* insert, so inserts are taken between reader calls. The order in which
\* the store yields rows of equal timestamp is open until the first two such
\* rows exist, and is fixed from then on.
InsertRow ==
    /\ storeFile = "ok"
    /\ call = NoCall
    /\ Cardinality(store) < MaxRows
    /\ \E i \in 1..Len(PollRows), ts \in Timestamps :
         /\ \A r \in store : r.event_id # EventId(i, ts)
         /\ store' = store \cup {[PollRows[i] EXCEPT !.event_id = EventId(i, ts),
                                                   !.timestamp = ts]}
         /\ tieOrder' \in IF /\ \E r \in store : r.timestamp = ts
                             /\ \A r, q \in store : r.timestamp = q.timestamp => r = q
                          THEN {"ASC", "DESC"}
                          ELSE {tieOrder}
    /\ ret' = NoRet
    /\ UNCHANGED <<impl, storeFile, db_path, last_timestamp, running, pc, call,
                   pending, delivered, polled, stopHistory, maxSeen, maxAppended, startedAt,
                   unclosed, cycleStart>>

(* ------------------------------------------------------------------ *)
(* The reader calls: get_recent_messages and get_thread_messages      *)
(* ------------------------------------------------------------------ *)
\* `return messages` / `return []` of a reader call: to the poll loop, which
\* goes on to iterate the messages (or to sleep when there are none), or to
\* the direct caller.
Return(caller, op, since, limit, messages) ==
    /\ call' = NoCall
    /\ IF caller = "loop"
       THEN /\ pending' = messages
            /\ pc' = IF messages = <<>> THEN "sleep" ELSE "print"
            /\ UNCHANGED ret
       ELSE /\ ret' = [op |-> op, since |-> since, limit |-> limit, value |-> messages]
            /\ UNCHANGED <<pending, pc>>

\* an exception that leaves the reader: a direct caller sees it raised, and in
\* the poll loop it reaches the handler outside `while`, which ends the loop
UncaughtFailure(caller, op, since, limit) ==
    /\ call' = NoCall
    /\ IF caller = "loop"
       THEN /\ pending' = <<>>
            /\ pc' = "stopped"
            /\ UNCHANGED ret
       ELSE /\ ret' = [op |-> "raised", since |-> since, limit |-> limit, value |-> <<>>]
            /\ UNCHANGED <<pending, pc>>

\* except Exception as e: the error is logged and the reader returns []
CaughtFailure(caller, op, since, limit) == Return(caller, op, since, limit, <<>>)

\* The handler returns without conn.close(): the connection object is left to
\* the interpreter, which finalizes it at once (reference counting) or leaves
\* it open until a later collection.
LeftOpen == {unclosed, TRUE}

\* sqlite3.connect, cursor.execute and fetchall. connect(None) raises
\* TypeError; connecting to a missing file creates an empty database, whose
\* query then raises "no such table"; both end in `except Exception: return []`.
BeginCall(caller, op, limit, thread_id) ==
    /\ call = NoCall
    /\ IF db_path = "unset"
       THEN /\ CaughtFailure(caller, op, IF op = "recent" THEN last_timestamp ELSE 0, limit)
            /\ UNCHANGED <<storeFile, maxSeen, unclosed>>
       ELSE IF storeFile # "ok"
       THEN /\ storeFile' = "empty"
            /\ CaughtFailure(caller, op, IF op = "recent" THEN last_timestamp ELSE 0, limit)
            /\ unclosed' \in LeftOpen
            /\ UNCHANGED maxSeen
       ELSE /\ UNCHANGED <<storeFile, unclosed>>
            /\ \E rows \in (IF op = "recent"
                            THEN RecentSince(store, last_timestamp, limit)
                            ELSE ThreadMessages(store, thread_id, limit)) :
                 /\ maxSeen' = IF op = "recent" /\ rows # <<>>
                               THEN Max(maxSeen, rows[1].timestamp)
                               ELSE maxSeen
                 /\ IF rows = <<>>
                    THEN Return(caller, op, IF op = "recent" THEN last_timestamp ELSE 0, limit, <<>>)
                    ELSE /\ call' = [op |-> op, caller |-> caller, rows |-> rows,
                                     messages |-> <<>>, since |-> IF op = "recent" THEN last_timestamp ELSE 0,
                                     limit |-> limit,
                                     thread_id |-> thread_id,
                                     prev |-> IF op = "recent" /\ ret.op = "recent"
                                              THEN ret.limit ELSE 0]
                         /\ pc' = IF caller = "loop" THEN "in_call" ELSE pc
                         /\ ret' = NoRet
                         /\ UNCHANGED pending

\* the thread ids a caller passes to get_thread_messages
ThreadIds == {PyStr(room_abc), PyStr(room_tg), PyNone}

\* A direct call of get_recent_messages(limit) by the host. The listener's
\* start_monitoring blocks its caller until the loop ends, after which the
\* script exits: direct calls on a listener are taken before start_monitoring.
DirectRecent ==
    /\ pc \in {"idle", "task_created", "stopped"}
    /\ impl = "listener" => pc = "idle"
    /\ \E limit \in {1, DefaultLimit} : BeginCall("direct", "recent", limit, PyNone)
    /\ UNCHANGED <<impl, store, db_path, last_timestamp, running, delivered, polled,
                   stopHistory, maxAppended, startedAt, tieOrder, cycleStart>>

\* A direct call of get_thread_messages(thread_id, limit).
DirectThread ==
    /\ pc \in {"idle", "task_created", "stopped"}
    /\ impl = "listener" => pc = "idle"
    /\ \E thread_id \in ThreadIds :
         BeginCall("direct", "thread", PollLimit, thread_id)
    /\ UNCHANGED <<impl, store, db_path, last_timestamp, running, delivered, polled,
                   stopHistory, maxAppended, startedAt, tieOrder, cycleStart>>

\* One iteration of `for row in rows` of the call in progress, and the
\* return that follows the last row or an exception.
RowStep ==
    /\ call.op # "none"
    /\ LET row == Head(call.rows)
           rest == Tail(call.rows)
           d == DecodeRow(row, IF call.op = "recent" THEN row.room_id ELSE call.thread_id)
       IN
       /\ last_timestamp' = IF call.op = "recent"
                             THEN WatermarkAfterRow(last_timestamp, row.timestamp, d.outcome)
                             ELSE last_timestamp
       /\ maxAppended' = IF call.op = "recent" /\ d.outcome = "message"
                          THEN Max(maxAppended, row.timestamp)
                          ELSE maxAppended
       /\ unclosed' \in IF d.outcome = "raise" THEN LeftOpen ELSE {unclosed}
       /\ CASE d.outcome = "raise" ->
              CaughtFailure(call.caller, call.op, call.since, call.limit)
           [] d.outcome = "skip" ->
              IF rest = <<>>
              THEN Return(call.caller, call.op, call.since, call.limit, call.messages)
              ELSE /\ call' = [call EXCEPT !.rows = rest]
                   /\ UNCHANGED <<pc, pending, ret>>
           [] d.outcome = "message" ->
              IF rest = <<>>
              THEN Return(call.caller, call.op, call.since, call.limit, Append(call.messages, d.msg))
              ELSE /\ call' = [call EXCEPT !.rows = rest,
                                           !.messages = Append(call.messages, d.msg)]
                   /\ UNCHANGED <<pc, pending, ret>>
    /\ UNCHANGED <<impl, storeFile, store, db_path, running, delivered, polled,
                   stopHistory, maxSeen, startedAt, tieOrder, cycleStart>>

(* ------------------------------------------------------------------ *)
(* BeeperDatabaseListener: the blocking poll loop                     *)
(* ------------------------------------------------------------------ *)
\* start_monitoring up to the first evaluation of `while self.running`.
\* It does not look at the store file and it sets running unconditionally.
start_monitoring ==
    /\ impl = "listener"
    /\ pc = "idle"
    /\ call = NoCall
    /\ running' = TRUE
    /\ pc' = "while"
    /\ ret' = NoRet
    /\ startedAt' = ClockAtLeast(store)
    /\ UNCHANGED <<impl, storeFile, store, db_path, last_timestamp, call, pending,
                   delivered, polled, stopHistory, maxSeen, maxAppended, tieOrder, unclosed,
                   cycleStart>>

\* `while self.running:` found true: messages = self.get_recent_messages(limit=50)
LoopPoll ==
    /\ pc = "while"
    /\ running
    /\ cyclesSinceStop < MaxCycles
    /\ polled' = TRUE
    /\ cycleStart' = Len(delivered)
    /\ cyclesSinceStop' = IF stopRequested THEN cyclesSinceStop + 1 ELSE 0
    /\ BeginCall("loop", "recent", PollLimit, PyNone)
    /\ UNCHANGED <<impl, store, db_path, last_timestamp, running, delivered,
                   stopRequested, interrupted, maxAppended, startedAt, tieOrder>>

\* `while self.running:` found false: the loop ends, finally: running = False
LoopExit ==
    /\ pc = "while"
    /\ ~running
    /\ pc' = "stopped"
    /\ running' = FALSE
    /\ UNCHANGED <<impl, storeFile, store, db_path, last_timestamp, call, pending,
                   delivered, ret, polled, stopHistory, maxSeen, maxAppended, startedAt,
                   tieOrder, unclosed, cycleStart>>

\* The per-message output of the listener: the lines with the network, the
\* sender, the text and the thread name, then msg['thread_id'][:20], which
\* raises TypeError when the room id is None.
PrintRaises(msg) == msg.thread_id.t # "str"

\* One iteration of `for msg in messages`. `except Exception` is outside the
\* while loop, so an exception of the output ends the loop.
PrintMessage ==
    /\ pc = "print"
    /\ LET msg == Head(pending) IN
       /\ delivered' = Append(delivered, msg)
       /\ pending' = Tail(pending)
       /\ IF PrintRaises(msg)
          THEN /\ pc' = "stopped"
               /\ running' = FALSE
          ELSE /\ pc' = IF Tail(pending) = <<>> THEN "sleep" ELSE "print"
               /\ UNCHANGED running
    /\ UNCHANGED <<impl, storeFile, store, db_path, last_timestamp, call, ret,
                   polled, stopHistory, maxSeen, maxAppended, startedAt, tieOrder, unclosed,
                   cycleStart>>

\* time.sleep(interval) returns
Wake ==
    /\ pc = "sleep"
    /\ pc' = "while"
    /\ UNCHANGED <<impl, storeFile, store, db_path, last_timestamp, running, call,
                   pending, delivered, ret, polled, stopHistory, maxSeen, maxAppended,
                   startedAt, tieOrder, unclosed, cycleStart>>

\* stop_monitoring, called from another thread at any time
stop_monitoring ==
    /\ impl = "listener"
    /\ running' = FALSE
    /\ stopRequested' = (stopRequested \/ pc # "stopped")
    /\ cyclesSinceStop' = IF pc # "stopped" THEN 0 ELSE cyclesSinceStop
    /\ UNCHANGED <<impl, storeFile, store, db_path, last_timestamp, pc, call,
                   pending, delivered, ret, polled, interrupted, maxSeen, maxAppended,
                   startedAt, tieOrder, unclosed, cycleStart>>

\* KeyboardInterrupt raised in the loop's thread, at any point of the loop:
\* `except KeyboardInterrupt`, then finally: running = False. Inside
\* get_recent_messages it passes `except Exception` (it is a BaseException).
KeyboardInterrupt ==
    /\ impl = "listener"
    /\ pc \in RunningPcs
    /\ pc' = "stopped"
    /\ running' = FALSE
    /\ call' = NoCall
    /\ stopRequested' = TRUE
    /\ cyclesSinceStop' = 0
    /\ interrupted' = TRUE
    /\ UNCHANGED <<impl, storeFile, store, db_path, last_timestamp, pending,
                   delivered, ret, polled, maxSeen, maxAppended, startedAt, tieOrder, unclosed,
                   cycleStart>>

(* ------------------------------------------------------------------ *)
(* SubjectiveBeeperRealTimeDataSource: the monitoring task            *)
(* ------------------------------------------------------------------ *)
\* start(): create_task(self._start_monitoring()), then await it
start ==
    /\ impl = "ds"
    /\ pc = "idle"
    /\ call = NoCall
    /\ pc' = "task_created"
    /\ ret' = NoRet
    /\ startedAt' = ClockAtLeast(store)
    /\ UNCHANGED <<impl, storeFile, store, db_path, last_timestamp, running, call,
                   pending, delivered, polled, stopHistory, maxSeen, maxAppended, tieOrder,
                   unclosed, cycleStart>>

\* _start_monitoring: db_path is configured, a missing store file is logged,
\* and the `return` that follows the `if` (at the function body's
\* indentation) ends the task whether or not the file exists. The statements
\* after it, running = True and the poll loop, are never executed.
StartMonitoringTask ==
    /\ impl = "ds"
    /\ pc = "task_created"
    /\ call = NoCall
    /\ db_path' = "set"
    /\ pc' = "stopped"
    /\ ret' = NoRet
    /\ UNCHANGED <<impl, storeFile, store, last_timestamp, running, call, pending,
                   delivered, polled, stopHistory, maxSeen, maxAppended, startedAt,
                   tieOrder, unclosed, cycleStart>>

\* stop(): running = False; a task that is not done is cancelled and awaited.
\* A task cancelled before its first step never runs its body.
stop ==
    /\ impl = "ds"
    /\ call = NoCall
    /\ running' = FALSE
    /\ pc' = IF pc = "task_created" THEN "stopped" ELSE pc
    /\ stopRequested' = (stopRequested \/ pc # "stopped")
    /\ UNCHANGED cyclesSinceStop
    /\ UNCHANGED <<impl, storeFile, store, db_path, last_timestamp, call, pending,
                   delivered, ret, polled, interrupted, maxSeen, maxAppended, startedAt,
                   tieOrder, unclosed, cycleStart>>

\* test_connection: os.path.exists, then connect and SELECT COUNT(*); any
\* failure returns False.
test_connection ==
    /\ impl = "ds"
    /\ call = NoCall
    /\ ret' = [op |-> "test", since |-> 0, limit |-> 0, value |-> (storeFile = "ok")]
    /\ UNCHANGED <<impl, storeFile, store, db_path, last_timestamp, running, pc, call,
                   pending, delivered, polled, stopHistory, maxSeen, maxAppended, startedAt,
                   tieOrder, unclosed, cycleStart>>

Next ==
    \/ InsertRow
    \/ DirectRecent
    \/ DirectThread
    \/ RowStep
    \/ start_monitoring
    \/ LoopPoll
    \/ LoopExit
    \/ PrintMessage
    \/ Wake
    \/ stop_monitoring
    \/ KeyboardInterrupt
    \/ start
    \/ StartMonitoringTask
    \/ stop
    \/ test_connection

Spec == Init /\ [][Next]_vars

(* ------------------------------------------------------------------ *)
(* Decoding one arbitrary row: the reader calls over a store that     *)
(* holds a single row drawn from the column values below              *)
(* ------------------------------------------------------------------ *)
MessageBlobs == {NULL, "", "{oops", "{}", "null", "[]", "[1]", "{\"text\":\"hi\"}",
                 "{\"body\":\"hello\"}", "{\"filename\":\"a.png\"}", "{\"text\":\"\"}",
                 "{\"text\":\" \\t\"}", "{\"text\":5}", "{\"text\":null,\"body\":\"hello\"}"}
SenderBlobs == {NULL, "{oops", "{}", "[1]", "{\"displayName\":\"Ann\"}", "{\"name\":\"Bob\"}",
                "{\"username\":\"cy\"}", "{\"displayName\":5}"}
TextValues == {PyNone, PyStr(<<>>), PyStr(s_blank), PyStr(s_hi)}
SenderIds == {PyNone, PyStr(<<>>), PyStr(sid_local_whatsapp_5), PyStr(sid_WhatsApp),
              PyStr(sid_telegram), PyStr(sid_LinkedIn), PyStr(sid_beeper),
              PyStr(sid_BEEPER), PyStr(sid_plain)}
PlatformNames == {PyNone, PyStr(<<>>), PyStr(s_discord), PyStr(s_whatsapp)}
RoomIds == {PyNone, PyStr(room_abc), PyStr(room_tg), PyStr(room_long)}

ContentRows ==
    {Row(PyStr(room_abc), PyStr(sid_plain), m, "TEXT", 0, tc, fc, NULL, PyNone) :
        m \in MessageBlobs, tc \in TextValues, fc \in TextValues}
SenderRows ==
    {Row(room, sid, "{\"body\":\"hello\"}", "TEXT", 0, PyNone, PyNone, su, nt) :
        room \in RoomIds, sid \in SenderIds, su \in SenderBlobs, nt \in PlatformNames}
FilterRows ==
    {Row(PyStr(room_abc), PyStr(sid_plain), "{\"text\":\"hi\"}", ty, del, PyNone, PyNone,
         NULL, PyNone) :
        ty \in AllowedTypes \cup {"REACTION"}, del \in {0, 1}}

DecodeRows == ContentRows \cup SenderRows \cup FilterRows

InitDecode ==
    /\ InitCommon
    /\ storeFile = "ok"
    /\ \E shape \in DecodeRows, ts \in {StartTime, StartTime + 1} :
         store = {[shape EXCEPT !.event_id = 1, !.timestamp = ts]}

NextDecode ==
    \/ DirectRecent
    \/ DirectThread
    \/ RowStep

SpecDecode == InitDecode /\ [][NextDecode]_vars

(* ------------------------------------------------------------------ *)
(* Properties                                                         *)
(* ------------------------------------------------------------------ *)
\* the row of the store a message was decoded from
RowOf(msg) == CHOOSE r \in store : r.event_id = msg.event_id

\* the last direct call was a reader call and has returned
ReaderReturned == call = NoCall /\ ret.op \in {"recent", "thread"}

\* a row the WHERE clause of get_recent_messages selects, given the watermark
Selected(r, since) ==
    r.timestamp > since /\ r.type \in AllowedTypes /\ r.isDeleted = 0

\* C1: when start is invoked and the store file exists, the poller enters
\* Running and polls until it is stopped: the data source's task ends without
\* having polled, and without a stop request, only when the store file is
\* missing.
C1_StartPollsWhenStoreExists ==
    (impl = "ds" /\ pc = "stopped" /\ ~polled /\ ~stopRequested) => storeFile # "ok"

C3_WatermarkMonotonic == [][last_timestamp' >= last_timestamp]_vars

\* the watermark has advanced, the loop has polled and delivered, and it was
\* stopped
C3_Witness ==
    /\ last_timestamp > StartTime
    /\ polled
    /\ delivered # <<>>
    /\ stopRequested
    /\ pc = "stopped"

\* C4: a row whose payload is malformed or absent and whose pre-extracted
\* plain text is not blank is decoded into a Message carrying that text.
C4_PreExtractedTextWins ==
    \A r \in store :
        ( /\ call = NoCall
          /\ ret.op = "recent"
          /\ Selected(r, ret.since)
          /\ (~BlobTruthy(r.message) \/ ~JsonLoads(r.message).ok)
          /\ Truthy(r.text_content)
          /\ ~StripIsEmpty(r.text_content.v) )
        => \E i \in 1..Len(ret.value) :
              /\ ret.value[i].event_id = r.event_id
              /\ ret.value[i].text = r.text_content

NetworkEnumeration ==
    {PyStr(s_whatsapp), PyStr(s_telegram), PyStr(s_linkedin), PyStr(s_matrix),
     PyStr(s_unknown)}

\* C5 (as claimed): every Message the reader returns has its network in
\* {whatsapp, telegram, linkedin, matrix, unknown}.
C5_NetworkInEnumeration ==
    ReaderReturned =>
        \A i \in 1..Len(ret.value) : ret.value[i].network \in NetworkEnumeration

\* the sender id matches one of the classifier's substring tests
MatchesRule(sender_id) ==
    /\ Truthy(sender_id)
    /\ \/ Contains(s_whatsapp, Lower(sender_id.v))
       \/ Contains(s_telegram, Lower(sender_id.v))
       \/ Contains(s_linkedin, Lower(sender_id.v))
       \/ Contains(s_beeper_com, sender_id.v)

\* C5 (amended): every Message the reader returns has its network in the
\* enumeration, or equal to the row's non-empty platform-name hint, the
\* latter only when the sender id matches none of the substring tests.
C5_NetworkInEnumerationOrHint ==
    ReaderReturned =>
        \A i \in 1..Len(ret.value) :
            LET m == ret.value[i]
                r == RowOf(m)
            IN \/ m.network \in NetworkEnumeration
               \/ /\ Truthy(r.network_type)
                  /\ m.network = r.network_type
                  /\ ~MatchesRule(r.sender_id)

\* a returned Message carries the platform-name hint "discord"
C5_Witness ==
    /\ ReaderReturned
    /\ \E i \in 1..Len(ret.value) : ret.value[i].network = PyStr(s_discord)

\* C6: a row whose text resolves to empty or all-whitespace yields no
\* Message, and every Message returned has a text that is a non-empty string
\* with a non-whitespace character.
C6_NoBlankText ==
    ReaderReturned =>
        /\ \A i \in 1..Len(ret.value) :
             LET text == ret.value[i].text
             IN /\ text.t = "str"
                /\ Len(text.v) > 0
                /\ \E k \in 1..Len(text.v) : text.v[k] \notin Whitespace
        /\ \A r \in store :
             LET text == ExtractText(r)
             IN (~text.raised /\ (~Truthy(text.v) \/ (text.v.t = "str" /\ StripIsEmpty(text.v.v))))
                => \A i \in 1..Len(ret.value) : ret.value[i].event_id # r.event_id

\* a selected row whose text resolves to whitespace was skipped
C6_Witness ==
    /\ call = NoCall
    /\ ret.op = "recent"
    /\ ret.value = <<>>
    /\ \E r \in store :
         /\ Selected(r, ret.since)
         /\ ~ExtractText(r).raised
         /\ ExtractText(r).v = PyStr(s_blank)

\* The classifier as C7 states it: every substring test is case-insensitive.
ClassifyAllLower(sender_id, network_type) ==
    LET default == PyOr(network_type, PyStr(s_unknown)) IN
    IF ~Truthy(sender_id) THEN default
    ELSE IF Contains(s_whatsapp, Lower(sender_id.v)) THEN PyStr(s_whatsapp)
    ELSE IF Contains(s_telegram, Lower(sender_id.v)) THEN PyStr(s_telegram)
    ELSE IF Contains(s_linkedin, Lower(sender_id.v)) THEN PyStr(s_linkedin)
    ELSE IF Contains(s_beeper_com, Lower(sender_id.v)) THEN PyStr(s_matrix)
    ELSE default

\* C7: the network of every Message is the result of the first matching
\* rule, each rule a case-insensitive substring test on the sender id:
\* whatsapp, telegram, linkedin, "beeper.com" -> matrix, else the platform
\* hint, else unknown.
C7_FirstMatchCaseInsensitive ==
    ReaderReturned =>
        \A i \in 1..Len(ret.value) :
            LET m == ret.value[i]
                r == RowOf(m)
            IN m.network = ClassifyAllLower(r.sender_id, r.network_type)

\* C8: once Running, the poll loop ends only on an explicit stop request.
C8_LoopEndsOnlyOnStop ==
    (impl = "listener" /\ pc = "stopped") => stopRequested

\* C9: a stop request is never lost: after a stop request, issued at any time
\* (before start included), the poll loop begins at most one further poll
\* cycle.
C9_StopNeverLost == stopRequested => cyclesSinceStop <= 1

\* C10: a cancellation signal never aborts a poll cycle partway: the
\* Messages the cycle's RecentSince call returned have all been passed to the
\* sink when the loop has ended.
C10_SignalNeverAbortsCycle == interrupted => pending = <<>>

\* C11 (as claimed): the watermark is the clock at start, so every Message
\* delivered to the sink has a timestamp strictly greater than the time at
\* which start was invoked.
C11_NewerThanStart ==
    \A i \in 1..Len(delivered) : delivered[i].timestamp > startedAt

\* C11 (amended): the watermark is the clock at construction; every Message
\* delivered to the sink has a timestamp strictly greater than the time at
\* which the poller was constructed.
C11_NewerThanConstruction ==
    \A i \in 1..Len(delivered) : delivered[i].timestamp > StartTime

\* time elapsed between construction and start: a Message that was in the
\* store when start was invoked has been delivered
C11_Witness ==
    /\ polled
    /\ \E i \in 1..Len(delivered) : delivered[i].timestamp <= startedAt

\* C12 (idempotent re-poll): when get_recent_messages is called directly
\* twice in a row with the same limit and the store is not changed in
\* between, the second call returns the empty list. call.prev is the limit of
\* the get_recent_messages call that returned just before this one began
\* (0 when an insert, a start or another operation came in between).
C12_SecondCallReturnsEmpty ==
    [][(/\ call.op = "recent"
        /\ call.caller = "direct"
        /\ call.prev = call.limit
        /\ call'.op = "none") => ret'.value = <<>>]_vars

\* C12 as stated, for any two limits: the second of two direct calls in a row
\* returns the empty list.
C12_SecondCallReturnsEmptyAnyLimit ==
    [][(/\ call.op = "recent"
        /\ call.caller = "direct"
        /\ call.prev # 0
        /\ call'.op = "none") => ret'.value = <<>>]_vars

\* the second call has its last row to decode, after a first call that
\* advanced the watermark
C12_Witness ==
    /\ call.op = "recent"
    /\ call.caller = "direct"
    /\ call.prev = call.limit
    /\ call.since > StartTime
    /\ Len(call.rows) = 1

\* C13 (store failures are caught): a reader call that finds the path unset,
\* the file missing or the table missing returns the empty list to its caller
\* in the same step; a poll cycle goes on to its sleep and the loop stays
\* in its running positions.
C13_StoreFailureCaught ==
    [][((DirectRecent \/ DirectThread \/ LoopPoll)
         /\ (db_path = "unset" \/ storeFile # "ok"))
       => /\ call' = NoCall
          /\ pc = "while" => (pc' = "sleep" /\ pending' = <<>> /\ running' = running)
          /\ pc # "while" => (ret'.op \in {"recent", "thread"} /\ ret'.value = <<>>
                              /\ pc' = pc)]_vars

\* the loop sleeps after polling a store that has never been readable
C13_Witness ==
    /\ pc = "sleep"
    /\ polled
    /\ storeFile # "ok"

\* C14 (decoding never raises): decoding the row at hand yields a Message
\* or skips the row, and a returned get_recent_messages call that was not cut
\* by its limit holds a Message for every selected row that decodes to one,
\* whatever the other rows of the result set are.
C14_DecodingNeverRaises ==
    /\ call.op # "none" =>
          DecodeRow(Head(call.rows),
                    IF call.op = "recent" THEN Head(call.rows).room_id
                    ELSE call.thread_id).outcome \in {"message", "skip"}
    /\ (call = NoCall /\ ret.op = "recent" /\ ret.limit >= Cardinality(store)) =>
          \A r \in store :
              (Selected(r, ret.since) /\ DecodeRow(r, r.room_id).outcome = "message")
              => \E i \in 1..Len(ret.value) : ret.value[i].event_id = r.event_id

\* C15 (connections are closed): whenever no reader call is in progress,
\* no connection opened by a reader call is left unclosed, also after a call
\* that ended in the caught-failure path.
C15_NoConnectionLeftOpen == call = NoCall => ~unclosed

\* C16 (delivery within a cycle): the sink is invoked once for each Message
\* of the cycle's result, in row order. Outside the cycle's output loop, and
\* without an interrupt, no Message of the result is left undelivered, and
\* the Messages delivered since the cycle began are in non-increasing
\* timestamp order.
C16_CycleDeliversItsResult ==
    /\ (pc # "print" /\ ~interrupted) => pending = <<>>
    /\ \A i, j \in (cycleStart + 1)..Len(delivered) :
          i < j => delivered[i].timestamp >= delivered[j].timestamp

\* C17 (at-most-once delivery): over the poll cycles of one poller, with rows
\* inserted between the cycles, no event_id is delivered to the sink twice.
C17_AtMostOnce ==
    \A i, j \in 1..Len(delivered) :
        i # j => delivered[i].event_id # delivered[j].event_id

\* a cycle has delivered a Message after an earlier cycle delivered one
C17_Witness ==
    /\ cycleStart >= 1
    /\ Len(delivered) > cycleStart

\* C18 (cross-cycle ordering): every Message delivered in a poll cycle has a
\* timestamp strictly greater than that of every Message delivered in an
\* earlier cycle of the same poller.
C18_LaterCycleIsNewer ==
    \A i \in 1..cycleStart :
        \A j \in (cycleStart + 1)..Len(delivered) :
            delivered[j].timestamp > delivered[i].timestamp

\* a cycle has delivered a Message newer than the one an earlier cycle
\* delivered, and the loop has reached its sleep
C18_Witness ==
    /\ pc = "sleep"
    /\ cycleStart >= 1
    /\ Len(delivered) > cycleStart
    /\ delivered[Len(delivered)].timestamp > delivered[cycleStart].timestamp

\* C19 (the watermark follows what is returned): after a get_recent_messages
\* call the watermark is the one the call found, or the timestamp of a
\* Message the call returned; a call that returns the empty list from its
\* failure path leaves the watermark where it was.
C19_WatermarkOnlyFromReturned ==
    (call = NoCall /\ ret.op = "recent") =>
        \/ last_timestamp = ret.since
        \/ \E i \in 1..Len(ret.value) : ret.value[i].timestamp = last_timestamp

====
